---- MODULE Spec2Model ----
(***************************************************************************)
(* Model of the error-style rule engine (src/src/engine/rule-engine.ts)    *)
(* over the shipped catalog (src/src/rules/core-rules.ts).                 *)
(*                                                                         *)
(* Strings are TLA+ strings; String.prototype.includes and toLowerCase are *)
(* computed character by character.  Confidences are IEEE-754 binary64     *)
(* numbers, held exactly as a pair [c, d] that stands for the real number  *)
(*        c/100 + d / (25 * 2^59)                                          *)
(* so that every addition is rounded as the JavaScript engine rounds it.   *)
(* An optional field (severity?, frameworks?, context?) is a sequence of   *)
(* length at most one: <<>> when absent, <<v>> when present.               *)
(***************************************************************************)
EXTENDS Integers, Sequences, FiniteSets, TLC

VARIABLES rules, lastOp, lastError, lastContext, lastResult, addedFrom, lastAdded,
          lastQuery, catalog, sharedRules, sharedAdded, listeners, prettyCalls,
          environment, uncaughtListeners, onerror, onunhandledrejection,
          exitCode, pending, effects

\* the exported coreRules array, the shared ruleEngine with the rules
\* appended to it so far, and the contexts of the registered
\* unhandledRejection listeners
processVars == <<catalog, sharedRules, sharedAdded, listeners>>

\* the host: which of process and window exist, the contexts of the
\* registered uncaughtException listeners, the handlers held by
\* window.onerror and window.onunhandledrejection, the exit code once the
\* process has ended, and the promises the library has returned that are not
\* settled yet
hostVars == <<environment, uncaughtListeners, onerror, onunhandledrejection,
              exitCode, pending>>

vars == <<rules, lastOp, lastError, lastContext, lastResult, addedFrom,
          lastAdded, lastQuery, catalog, sharedRules, sharedAdded, listeners,
          prettyCalls, environment, uncaughtListeners, onerror,
          onunhandledrejection, exitCode, pending, effects>>

None == <<>>

Some(v) == <<v>>

(***************************************************************************)
(* Bounds of the model.                                                    *)
(***************************************************************************)
MaxCustom == 2

\* the listeners setupGlobalErrorHandlers has registered for an event
MaxSetup == 2

\* the promises the library has returned that are not settled yet
MaxPending == 1

(***************************************************************************)
(* IEEE-754 binary64 arithmetic on the values the scorer can produce.      *)
(***************************************************************************)
RECURSIVE Pow2(_)
Pow2(n) == IF n = 0 THEN 1 ELSE 2 * Pow2(n - 1)

\* 2^n modulo 25, by repeated squaring
RECURSIVE Pow2Mod25(_)
Pow2Mod25(n) ==
  IF n = 0 THEN 1
  ELSE IF n % 2 = 1 THEN (2 * Pow2Mod25(n - 1)) % 25
  ELSE LET h == Pow2Mod25(n \div 2) IN (h * h) % 25

\* x >= k/100, for k/100 a power of two that is a whole number of hundredths
FGeCenti(x, k) == x.c > k \/ (x.c = k /\ x.d >= 0)

\* the exponent p such that the spacing of binary64 numbers around x is 2^-p
UlpExp(x) ==
  IF FGeCenti(x, 100) THEN 52
  ELSE IF FGeCenti(x, 50) THEN 53
  ELSE IF FGeCenti(x, 25) THEN 54
  ELSE IF x.c >= 13 THEN 55
  ELSE IF x.c >= 7 THEN 56
  ELSE 57

\* 2^-p in units of 1/(25 * 2^59)
UlpUnits(p) == 25 * Pow2(59 - p)

\* round-to-nearest, ties-to-even, of the exact value x onto the binary64 grid
FRound(x) ==
  LET p == UlpExp(x)
      u == UlpUnits(p)
      m == (x.c * Pow2Mod25(p - 2)) % 25
      w == Pow2(59 - p) * m + x.d
      r == w % u
      lowEven == (m + (w \div u)) % 2 = 0
      down == [c |-> x.c, d |-> x.d - r]
      up == [c |-> x.c, d |-> x.d + (u - r)]
  IN  IF r = 0 THEN x
      ELSE IF 2 * r < u THEN down
      ELSE IF 2 * r > u THEN up
      ELSE IF lowEven THEN down ELSE up

\* the binary64 value of the decimal literal k/100 (0.5 is Lit(50))
Lit(k) == FRound([c |-> k, d |-> 0])

FAdd(x, y) == FRound([c |-> x.c + y.c, d |-> x.d + y.d])

FLess(x, y) == x.c < y.c \/ (x.c = y.c /\ x.d < y.d)

FLeq(x, y) == x = y \/ FLess(x, y)

\* Math.min
FMin(x, y) == IF FLess(y, x) THEN y ELSE x

\* the sign of the binary64 difference x - y (zero exactly when x = y)
FSubSign(x, y) == IF FLess(x, y) THEN -1 ELSE IF x = y THEN 0 ELSE 1

(***************************************************************************)
(* Strings.                                                                *)
(***************************************************************************)
UpperToLower ==
  ("A" :> "a") @@ ("B" :> "b") @@ ("C" :> "c") @@ ("D" :> "d") @@
  ("E" :> "e") @@ ("F" :> "f") @@ ("G" :> "g") @@ ("H" :> "h") @@
  ("I" :> "i") @@ ("J" :> "j") @@ ("K" :> "k") @@ ("L" :> "l") @@
  ("M" :> "m") @@ ("N" :> "n") @@ ("O" :> "o") @@ ("P" :> "p") @@
  ("Q" :> "q") @@ ("R" :> "r") @@ ("S" :> "s") @@ ("T" :> "t") @@
  ("U" :> "u") @@ ("V" :> "v") @@ ("W" :> "w") @@ ("X" :> "x") @@
  ("Y" :> "y") @@ ("Z" :> "z")

\* String.prototype.toLowerCase, on the ASCII letters
RECURSIVE toLowerCase(_)
toLowerCase(s) ==
  IF Len(s) = 0 THEN ""
  ELSE LET ch == SubSeq(s, 1, 1)
       IN  (IF ch \in DOMAIN UpperToLower THEN UpperToLower[ch] ELSE ch)
             \o toLowerCase(SubSeq(s, 2, Len(s)))

LowerToUpper ==
  [ch \in {UpperToLower[u] : u \in DOMAIN UpperToLower} |->
     CHOOSE u \in DOMAIN UpperToLower : UpperToLower[u] = ch]

\* String.prototype.toUpperCase, on the ASCII letters
RECURSIVE toUpperCase(_)
toUpperCase(s) ==
  IF Len(s) = 0 THEN ""
  ELSE LET ch == SubSeq(s, 1, 1)
       IN  (IF ch \in DOMAIN LowerToUpper THEN LowerToUpper[ch] ELSE ch)
             \o toUpperCase(SubSeq(s, 2, Len(s)))

\* t occurs in s at position i
hasAt(s, i, t) ==
  i + Len(t) - 1 <= Len(s) /\ SubSeq(s, i, i + Len(t) - 1) = t

\* the characters \w of a regular expression
WordChars ==
  DOMAIN UpperToLower \cup DOMAIN LowerToUpper \cup
  {"0", "1", "2", "3", "4", "5", "6", "7", "8", "9", "_"}

\* String.prototype.includes: t occurs in s as a contiguous substring
includes(s, t) ==
  \E i \in 0..(Len(s) - Len(t)) : SubSeq(s, i + 1, i + Len(t)) = t

\* Array.prototype.includes on an array of strings
arrayIncludes(arr, v) == \E i \in 1..Len(arr) : arr[i] = v

\* JavaScript truthiness of a string value: the empty string is falsy
Truthy(s) == s # ""

(***************************************************************************)
(* The catalog.  A rule keeps the fields the engine reads: id, name,       *)
(* category, match, title, severity?, frameworks?.  The predicate match is *)
(* held as the disjunction of conjunctions its source text is (&& binds    *)
(* tighter than ||): a sequence of clauses, each a sequence of atoms, an   *)
(* atom being error.message.includes(s) or error.name === s.               *)
(***************************************************************************)
Msg(s) == [f |-> "message", s |-> s]

Name(s) == [f |-> "name", s |-> s]

coreRules == <<
  [id |-> "undefined-property", name |-> "Undefined Property Access",
   category |-> "javascript",
   match |-> << <<Msg("Cannot read properties of undefined")>>,
                <<Msg("Cannot access property"), Msg("undefined")>> >>,
   title |-> "Trying to use something that doesn't exist",
   severity |-> Some("high"), frameworks |-> None],
  [id |-> "null-property", name |-> "Null Property Access",
   category |-> "javascript",
   match |-> << <<Msg("Cannot read properties of null")>>,
                <<Msg("Cannot access property"), Msg("null")>> >>,
   title |-> "Trying to use something that is null",
   severity |-> Some("high"), frameworks |-> None],
  [id |-> "map-not-function", name |-> "Map Called on Non-Array",
   category |-> "javascript",
   match |-> << <<Msg("map is not a function")>>,
                <<Msg(".map"), Msg("not a function")>> >>,
   title |-> "Called map() on something that isn't an array",
   severity |-> Some("high"), frameworks |-> None],
  [id |-> "not-defined", name |-> "Variable Not Defined",
   category |-> "javascript",
   match |-> << <<Msg("is not defined")>>, <<Name("ReferenceError")>> >>,
   title |-> "Using a variable that doesn't exist",
   severity |-> Some("medium"), frameworks |-> None],
  [id |-> "json-parse-error", name |-> "JSON Parse Error",
   category |-> "json",
   match |-> << <<Msg("Unexpected token"), Msg("JSON")>>,
                <<Msg("JSON.parse")>>,
                <<Msg("not valid JSON")>> >>,
   title |-> "Failed to parse JSON data",
   severity |-> Some("high"), frameworks |-> None],
  [id |-> "fetch-failed", name |-> "Network Request Failed",
   category |-> "network",
   match |-> << <<Msg("fetch failed")>>, <<Msg("NetworkError")>>,
                <<Msg("ECONNREFUSED")>> >>,
   title |-> "Network request failed",
   severity |-> Some("medium"), frameworks |-> None],
  [id |-> "await-outside-async", name |-> "Await Outside Async Function",
   category |-> "async",
   match |-> << <<Msg("await is only valid in async functions")>>,
                <<Msg("await is only valid in async")>> >>,
   title |-> "Used await outside an async function",
   severity |-> Some("medium"), frameworks |-> None],
  [id |-> "promise-rejection", name |-> "Unhandled Promise Rejection",
   category |-> "async",
   match |-> << <<Msg("UnhandledPromiseRejectionWarning")>>,
                <<Name("UnhandledPromiseRejection")>> >>,
   title |-> "Promise rejected but not caught",
   severity |-> Some("high"), frameworks |-> None],
  [id |-> "enoent", name |-> "File Not Found",
   category |-> "nodejs",
   match |-> << <<Msg("ENOENT")>>, <<Msg("no such file or directory")>> >>,
   title |-> "File or directory doesn't exist",
   severity |-> Some("medium"), frameworks |-> None],
  [id |-> "eacces", name |-> "Permission Denied",
   category |-> "nodejs",
   match |-> << <<Msg("EACCES")>>, <<Msg("permission denied")>> >>,
   title |-> "Permission denied for file operation",
   severity |-> Some("medium"), frameworks |-> None],
  [id |-> "port-in-use", name |-> "Port Already in Use",
   category |-> "nodejs",
   match |-> << <<Msg("EADDRINUSE")>>, <<Msg("port already in use")>>,
                <<Msg("address already in use")>> >>,
   title |-> "Port is already being used by another process",
   severity |-> Some("low"), frameworks |-> None],
  [id |-> "react-children", name |-> "Invalid React Child",
   category |-> "react",
   match |-> << <<Msg("Objects are not valid as a React child")>>,
                <<Msg("Functions are not valid as a React child")>> >>,
   title |-> "Trying to render an object as React child",
   severity |-> Some("high"), frameworks |-> Some(<<"react">>)],
  [id |-> "react-too-many-renders", name |-> "Too Many React Re-renders",
   category |-> "react",
   match |-> << <<Msg("Too many re-renders")>>,
                <<Msg("Maximum update depth exceeded")>> >>,
   title |-> "Infinite re-render loop in React",
   severity |-> Some("critical"), frameworks |-> Some(<<"react">>)],
  [id |-> "react-hooks-rules", name |-> "React Hooks Rules Violation",
   category |-> "react",
   match |-> << <<Msg("Hooks can only be called inside")>>,
                <<Msg("Invalid hook call")>> >>,
   title |-> "React hook called outside component or in wrong order",
   severity |-> Some("high"), frameworks |-> Some(<<"react">>)]
>>

(***************************************************************************)
(* Inputs: the rules callers supply, the errors and the contexts.          *)
(***************************************************************************)
customRule1 ==
  [id |-> "request-timeout", name |-> "Timeout Error",
   category |-> "network",
   match |-> << <<Msg("timeout")>>,
                <<Msg("Cannot read properties"), Msg("undefined")>> >>,
   title |-> "Request timeout",
   severity |-> Some("high"), frameworks |-> Some(<<"react", "next", "react">>)]

customRule2 ==
  [id |-> "plain-error", name |-> "Error",
   category |-> "javascript",
   match |-> << <<Name("Error")>> >>,
   title |-> "",
   severity |-> None, frameworks |-> Some(<<"", "node">>)]

CustomRules == {customRule1, customRule2}

\* a test that throws whatever the error: (error) => error.cause.code === s
Throw(s) == [f |-> "throw", s |-> s]

\* a caller-supplied rule whose predicate
\*   error.name === 'TypeError' || error.cause.code === 'E_FAIL'
\* throws for every error that is not a TypeError and has no cause
faultyRule ==
  [id |-> "faulty", name |-> "Faulty", category |-> "javascript",
   match |-> << <<Name("TypeError")>>, <<Throw("E_FAIL")>> >>,
   title |-> "Faulty rule",
   severity |-> Some("low"), frameworks |-> None]

FaultRules == {faultyRule, customRule2}

FaultRuleSeqs(n) == UNION {[1..k -> FaultRules] : k \in 0..n}

\* the arrays of at most n caller-supplied rules
RuleSeqs(n) == UNION {[1..k -> CustomRules] : k \in 0..n}

Err(name, message) == [name |-> name, message |-> message]

Errors ==
  { Err("TypeError", "Cannot read properties of undefined (reading 'map')"),
    Err("Error", "fetch failed: ECONNREFUSED"),
    Err("Error", "xyz totally unrecognized condition qqq"),
    Err("Error", "Too many re-renders"),
    Err("React", "Invalid hook call"),
    Err("", "NETWORK REQUEST FAILED: fetch failed"),
    Err("Error", "Request timeout after 30s") }

\* error-like values, one of them without a message
FaultErrors ==
  { [name |-> "Error"],
    Err("Error", ""),
    Err("Error", "fetch failed: ECONNREFUSED"),
    Err("TypeError", "fetch failed: ECONNREFUSED") }

Ctx(framework) == Some([framework |-> framework])

Contexts ==
  { None, Ctx(None), Ctx(Some("react")), Ctx(Some("node")), Ctx(Some("")) }

\* ErrorRule['category']
Categories == {"javascript", "nodejs", "react", "network", "async", "json"}

\* the framework names the callers ask about
Frameworks == {"react", "next", "node", "", "vue"}

\* the errors and contexts of the runs that also query the engine
EngineErrors ==
  { Err("TypeError", "Cannot read properties of undefined (reading 'map')"),
    Err("Error", "xyz totally unrecognized condition qqq") }

EngineContexts == { None, Ctx(Some("react")) }

\* the context the application gives setupGlobalErrorHandlers
SetupContexts == { Ctx(Some("react")) }

\* the errors given to prettyError
ProcessErrors ==
  EngineErrors \cup { Err("TypeError", "data.map is not a function") }

\* the values promises are rejected with: an Error, and a string
Reasons ==
  { [isError |-> TRUE,
     error |-> Err("Error", "xyz totally unrecognized condition qqq")],
    [isError |-> FALSE, text |-> "Request timeout after 30s"] }

(***************************************************************************)
(* RuleEngine.                                                             *)
(***************************************************************************)
\* an atom that compares the whole message instead of searching it
atomExact(a, error) ==
  IF a.f = "message" THEN error.message = a.s ELSE error.name = a.s

\* one test of a predicate: error.message.includes(s) or error.name === s
atom(a, error) ==
  IF a.f = "message" THEN includes(error.message, a.s) ELSE error.name = a.s

\* the test raises an exception: the predicate's own throw statement, or the
\* TypeError of calling includes on the undefined message
atomThrows(a, error) ==
  \/ a.f = "throw"
  \/ a.f = "message" /\ "message" \notin DOMAIN error

\* a && chain is evaluated from the left and stops at the first test that is
\* false or throws
clauseThrows(clause, error) ==
  \E j \in 1..Len(clause) :
    /\ atomThrows(clause[j], error)
    /\ \A k \in 1..(j - 1) :
         ~atomThrows(clause[k], error) /\ atom(clause[k], error)

clauseTrue(clause, error) ==
  \A j \in 1..Len(clause) :
    ~atomThrows(clause[j], error) /\ atom(clause[j], error)

\* rule.match(error) throws: a || chain is evaluated from the left and stops
\* at the first && chain that is true or throws
throws(rule, error) ==
  \E i \in 1..Len(rule.match) :
    /\ clauseThrows(rule.match[i], error)
    /\ \A k \in 1..(i - 1) :
         /\ ~clauseThrows(rule.match[k], error)
         /\ ~clauseTrue(rule.match[k], error)

\* rule.match(error) returns true
match(rule, error) ==
  /\ ~throws(rule, error)
  /\ \E i \in 1..Len(rule.match) : clauseTrue(rule.match[i], error)

\* calculateConfidence throws: error.message.toLowerCase() on the undefined
\* message
confidenceThrows(error) == "message" \notin DOMAIN error

\* the body of the loop of findMatch throws for this rule
ruleThrows(rule, error) ==
  \/ throws(rule, error)
  \/ confidenceThrows(error) /\ match(rule, error)

\* context?.framework && rule.frameworks?.includes(context.framework)
frameworkMatches(rule, context) ==
  /\ context # None
  /\ context[1].framework # None
  /\ Truthy(context[1].framework[1])
  /\ rule.frameworks # None
  /\ arrayIncludes(rule.frameworks[1], context[1].framework[1])

\* the title bonus written += 0.2
titleBonusSmall(confidence, rule, error) ==
  IF includes(toLowerCase(error.message), toLowerCase(rule.title))
  THEN FAdd(confidence, Lit(20)) ELSE confidence

\* if (error.message.toLowerCase().includes(rule.title.toLowerCase()))
titleBonus(confidence, rule, error) ==
  IF includes(toLowerCase(error.message), toLowerCase(rule.title))
  THEN FAdd(confidence, Lit(30)) ELSE confidence

\* the framework bonus given whenever the context names a framework
frameworkBonusAnyFramework(confidence, rule, context) ==
  IF /\ context # None
     /\ context[1].framework # None
     /\ Truthy(context[1].framework[1])
  THEN FAdd(confidence, Lit(20)) ELSE confidence

frameworkBonus(confidence, rule, context) ==
  IF frameworkMatches(rule, context)
  THEN FAdd(confidence, Lit(20)) ELSE confidence

\* if (error.name && rule.name.toLowerCase().includes(error.name.toLowerCase()))
nameBonus(confidence, rule, error) ==
  IF /\ Truthy(error.name)
     /\ includes(toLowerCase(rule.name), toLowerCase(error.name))
  THEN FAdd(confidence, Lit(10)) ELSE confidence

\* the severity bonus with 'high' given the bonus of 'critical'
severityBonusHighAsCritical(confidence, rule) ==
  IF rule.severity = Some("critical") \/ rule.severity = Some("high")
  THEN FAdd(confidence, Lit(10)) ELSE confidence

\* the two severity statements, one after the other
severityBonus(confidence, rule) ==
  LET c1 == IF rule.severity = Some("critical")
            THEN FAdd(confidence, Lit(10)) ELSE confidence
  IN  IF rule.severity = Some("high") THEN FAdd(c1, Lit(5)) ELSE c1

\* the running total before the final Math.min
rawConfidence(rule, error, context) ==
  severityBonus(
    nameBonus(
      frameworkBonus(titleBonus(Lit(50), rule, error), rule, context),
      rule, error),
    rule)

\* the scorer without its final Math.min
calculateConfidenceNoClamp(rule, error, context) ==
  rawConfidence(rule, error, context)

calculateConfidence(rule, error, context) ==
  FMin(rawConfidence(rule, error, context), Lit(100))

\* the comparator written (a, b) => a.confidence - b.confidence
compareFnAscending(a, b) == FSubSign(a.confidence, b.confidence)

\* the comparator (a, b) => b.confidence - a.confidence
compareFn(a, b) == FSubSign(b.confidence, a.confidence)

\* a sort that puts an element before the earlier elements it ties with
RECURSIVE insertSortedUnstable(_, _)
insertSortedUnstable(sorted, x) ==
  IF sorted = <<>> THEN <<x>>
  ELSE IF compareFn(Head(sorted), x) >= 0 THEN <<x>> \o sorted
  ELSE <<Head(sorted)>> \o insertSortedUnstable(Tail(sorted), x)

\* Array.prototype.sort is stable: an element goes after every earlier
\* element the comparator does not order behind it
RECURSIVE insertSorted(_, _)
insertSorted(sorted, x) ==
  IF sorted = <<>> THEN <<x>>
  ELSE IF compareFn(Head(sorted), x) > 0 THEN <<x>> \o sorted
  ELSE <<Head(sorted)>> \o insertSorted(Tail(sorted), x)

RECURSIVE sortPrefix(_, _)
sortPrefix(arr, n) ==
  IF n = 0 THEN <<>> ELSE insertSorted(sortPrefix(arr, n - 1), arr[n])

sort(arr) == sortPrefix(arr, Len(arr))

\* the loop with a framework filter: a rule that names frameworks is skipped
\* when the context names a framework the rule does not list
RECURSIVE collectMatchesByFramework(_, _, _, _)
collectMatchesByFramework(rs, n, error, context) ==
  IF n = 0 THEN <<>>
  ELSE LET before == collectMatchesByFramework(rs, n - 1, error, context)
           excluded == /\ context # None
                       /\ context[1].framework # None
                       /\ rs[n].frameworks # None
                       /\ ~frameworkMatches(rs[n], context)
       IN  IF match(rs[n], error) /\ ~excluded
           THEN Append(before,
                  [rule |-> rs[n], idx |-> n, error |-> error,
                   confidence |-> calculateConfidence(rs[n], error, context)])
           ELSE before

\* the loop of findMatch over the first n rules: one RuleMatch per rule whose
\* predicate is true; idx says which element of this.rules match.rule
\* references
RECURSIVE collectMatches(_, _, _, _)
collectMatches(rs, n, error, context) ==
  IF n = 0 THEN <<>>
  ELSE LET before == collectMatches(rs, n - 1, error, context)
       IN  IF match(rs[n], error)
           THEN Append(before,
                  [rule |-> rs[n], idx |-> n, error |-> error,
                   confidence |-> calculateConfidence(rs[n], error, context)])
           ELSE before

\* findMatch with the emptiness test written matches.length <= 1
findMatchNeedsTwo(rs, error, context) ==
  LET matches == collectMatches(rs, Len(rs), error, context)
  IN  IF Len(matches) <= 1 THEN None ELSE Some(sort(matches)[1])

\* findMatch ends with an exception instead of returning
Thrown == <<"throw", "exception">>

\* null is None, a RuleMatch m is Some(m); the loop has no try block, so an
\* exception raised while a rule is tried ends the call
findMatch(rs, error, context) ==
  IF \E n \in 1..Len(rs) : ruleThrows(rs[n], error) THEN Thrown
  ELSE LET matches == collectMatches(rs, Len(rs), error, context)
       IN  IF Len(matches) = 0 THEN None ELSE Some(sort(matches)[1])

constructor(customRules) == coreRules \o customRules

\* this.rules.concat(rules) with the result dropped
addRulesNoAssign(rs, newRules) == rs

\* this.rules.push(rules[0]): the spread forgotten
addRulesFirstOnly(rs, newRules) ==
  IF newRules = <<>> THEN rs ELSE Append(rs, newRules[1])

\* this.rules.unshift(...rules)
addRulesUnshift(rs, newRules) == newRules \o rs

addRules(rs, newRules) == rs \o newRules

\* this.rules.filter(rule => rule.category === category)
getRulesByCategory(rs, category) ==
  SelectSeq(rs, LAMBDA rule : rule.category = category)

\* the filter written !rule.frameworks || rule.frameworks.includes(framework)
getRulesByFrameworkOrNone(rs, framework) ==
  SelectSeq(rs, LAMBDA rule :
    rule.frameworks = None \/ arrayIncludes(rule.frameworks[1], framework))

\* this.rules.filter(rule => rule.frameworks?.includes(framework))
getRulesByFramework(rs, framework) ==
  SelectSeq(rs, LAMBDA rule :
    rule.frameworks # None /\ arrayIncludes(rule.frameworks[1], framework))

\* {} as Record<string, number>
emptyRecord == [key \in {} |-> 0]

\* counts[key] = (counts[key] || 0) + 1
increment(counts, key) ==
  IF key \in DOMAIN counts /\ counts[key] # 0
  THEN [counts EXCEPT ![key] = @ + 1]
  ELSE [k \in DOMAIN counts \cup {key} |-> IF k = key THEN 1 ELSE counts[k]]

\* rule.severity || 'unknown'
severityKey(rule) ==
  IF rule.severity # None /\ Truthy(rule.severity[1])
  THEN rule.severity[1] ELSE "unknown"

\* for (const framework of rule.frameworks) over the first n names
RECURSIVE countFrameworks(_, _, _)
countFrameworks(counts, frameworks, n) ==
  IF n = 0 THEN counts
  ELSE increment(countFrameworks(counts, frameworks, n - 1), frameworks[n])

\* the loop of getStats over the first n rules
RECURSIVE statsAfter(_, _)
statsAfter(rs, n) ==
  IF n = 0
  THEN [totalRules |-> Len(rs), byCategory |-> emptyRecord,
        byFramework |-> emptyRecord, bySeverity |-> emptyRecord]
  ELSE LET stats == statsAfter(rs, n - 1)
           rule == rs[n]
       IN  [totalRules |-> stats.totalRules,
            byCategory |-> increment(stats.byCategory, rule.category),
            bySeverity |-> increment(stats.bySeverity, severityKey(rule)),
            byFramework |->
              IF rule.frameworks # None
              THEN countFrameworks(stats.byFramework, rule.frameworks[1],
                                   Len(rule.frameworks[1]))
              ELSE stats.byFramework]

\* getStats with totalRules: coreRules.length
getStatsCoreTotal(rs) ==
  [statsAfter(rs, Len(rs)) EXCEPT !.totalRules = Len(coreRules)]

getStats(rs) == statsAfter(rs, Len(rs))

(***************************************************************************)
(* PrettyFormatter.  The returned string is held as the record of its      *)
(* parts that vary; the frame around them is fixed text.  body is the rule *)
(* whose explanation and first three fixes are printed.  The error-like    *)
(* values of the model carry no stack.                                     *)
(***************************************************************************)
\* the icons, by name
getSeverityIcon(severity) ==
  IF severity = Some("critical") THEN "rotating light"
  ELSE IF severity = Some("high") THEN "warning sign"
  ELSE IF severity = Some("medium") THEN "high voltage"
  ELSE IF severity = Some("low") THEN "light bulb"
  ELSE "cross mark"

\* if (!stack) return {}
extractStackInfo(error) == [file |-> None, line |-> None]

\* /Cannot read properties of (undefined|null) \(reading '([^']+)'\)/ matches
\* at position i with the first group equal to word
readingMatchAt(message, i, word) ==
  LET prefix == "Cannot read properties of " \o word \o " (reading '"
      q == i + Len(prefix)
  IN  /\ hasAt(message, i, prefix)
      /\ \E e \in (q + 1)..(Len(message) - 1) :
           /\ \A k \in q..(e - 1) : SubSeq(message, k, k) # "'"
           /\ hasAt(message, e, "')")

\* /(\w+) is not a function/ matches at position i with the group ending
\* at position j
functionMatchAt(message, i, j) ==
  /\ hasAt(message, j + 1, " is not a function")
  /\ \A k \in i..j : SubSeq(message, k, k) \in WordChars

\* the first match of each pattern decides; match[1] of the first pattern is
\* its first group, the word undefined or null
extractVariableName(message) ==
  LET Words == {"undefined", "null"}
      reading == {i \in 1..Len(message) :
                    \E w \in Words : readingMatchAt(message, i, w)}
      function == {i \in 1..Len(message) :
                     \E j \in i..Len(message) : functionMatchAt(message, i, j)}
  IN  IF reading # {}
      THEN LET i == CHOOSE m \in reading : \A n \in reading : m <= n
           IN  Some(CHOOSE w \in Words : readingMatchAt(message, i, w))
      ELSE IF function # {}
      THEN LET i == CHOOSE m \in function : \A n \in function : m <= n
               j == CHOOSE n \in i..Len(message) :
                      functionMatchAt(message, i, n)
           IN  Some(SubSeq(message, i, j))
      ELSE None

formatKnownError(error, ruleMatch, context) ==
  LET rule == ruleMatch[1].rule
  IN  [rendering |-> "known",
       icon |-> getSeverityIcon(rule.severity),
       header |-> toUpperCase(rule.title),
       body |-> Some(rule),
       message |-> None,
       stackInfo |-> extractStackInfo(error),
       variable |-> extractVariableName(error.message)]

formatUnknownError(error, context) ==
  [rendering |-> "unknown",
   icon |-> "cross mark",
   header |-> "UNKNOWN ERROR",
   body |-> None,
   message |-> Some(error.message),
   stackInfo |-> extractStackInfo(error),
   variable |-> None]

\* formatError that takes the unknown rendering whatever the match
formatErrorAlwaysUnknown(error, ruleMatch, context) ==
  formatUnknownError(error, context)

\* if (!ruleMatch) return this.formatUnknownError(error, context)
formatError(error, ruleMatch, context) ==
  IF ruleMatch = None THEN formatUnknownError(error, context)
  ELSE formatKnownError(error, ruleMatch, context)

\* one call of prettyFormatter.formatError: its arguments and what it returns
FormatCall(error, ruleMatch, context) ==
  [error |-> error, ruleMatch |-> ruleMatch, context |-> context,
   output |-> formatError(error, ruleMatch, context)]

\* const ruleMatch = ruleEngine.findMatch(error, context);
\* prettyFormatter.formatError(error, ruleMatch, context)
\* as the two calls made: the engine's with its arguments and return value,
\* and the formatter's unless findMatch ended with an exception
EngineThenFormatter(rs, error, context) ==
  LET ruleMatch == findMatch(rs, error, context)
  IN  [engine |-> [error |-> error, context |-> context, result |-> ruleMatch],
       formatter |-> IF ruleMatch = Thrown THEN None
                     ELSE Some(FormatCall(error, ruleMatch, context))]

\* reason instanceof Error ? reason : new Error(String(reason))
toError(reason) ==
  IF reason.isError THEN reason.error ELSE Err("Error", reason.text)

\* the listeners of unhandledRejection run in the order of registration, each
\* with the context its setupGlobalErrorHandlers call was given; an exception
\* in a listener ends the run
RECURSIVE listenerCalls(_, _, _, _)
listenerCalls(rs, contexts, n, reason) ==
  IF n = 0 THEN <<>>
  ELSE LET before == listenerCalls(rs, contexts, n - 1, reason)
       IN  IF  \/ Len(before) < n - 1
               \/ n > 1 /\ before[n - 1].formatter = None
           THEN before
           ELSE Append(before,
                  EngineThenFormatter(rs, toError(reason), contexts[n]))

(***************************************************************************)
(* The state machine: one engine instance and the calls made on it.        *)
(***************************************************************************)
ConstructIn(customRules, host) ==
  /\ rules = constructor(customRules)
  /\ lastOp = "constructor"
  /\ lastError = None
  /\ lastContext = None
  /\ lastResult = None
  /\ addedFrom = 0
  /\ lastAdded = <<>>
  /\ lastQuery = None
  /\ catalog = coreRules
  /\ sharedRules = constructor(<<>>)
  /\ sharedAdded = <<>>
  /\ listeners = <<>>
  /\ prettyCalls = <<>>
  /\ environment = host
  /\ uncaughtListeners = <<>>
  /\ onerror = None
  /\ onunhandledrejection = None
  /\ exitCode = None
  /\ pending = <<>>
  /\ effects = <<>>

\* new RuleEngine(customRules) in a Node.js process
Construct(customRules) == ConstructIn(customRules, "node")

Init == \E customRules \in RuleSeqs(MaxCustom) : Construct(customRules)

\* findMatch that moves the rule it returns to the front of this.rules
CallFindMatchPromote(error, context) ==
  LET result == findMatch(rules, error, context)
  IN  /\ lastResult' = result
      /\ rules' = IF result = None \/ result = Thrown THEN rules
                  ELSE <<result[1].rule>>
                       \o SubSeq(rules, 1, result[1].idx - 1)
                       \o SubSeq(rules, result[1].idx + 1, Len(rules))
      /\ lastError' = Some(error)
      /\ lastContext' = context
      /\ lastOp' = "findMatch"
      /\ lastQuery' = None
      /\ UNCHANGED <<addedFrom, lastAdded>>
      /\ prettyCalls' = <<>>
      /\ effects' = <<>>
      /\ UNCHANGED processVars
      /\ UNCHANGED hostVars

CallFindMatch(error, context) ==
  /\ lastResult' = findMatch(rules, error, context)
  /\ lastError' = Some(error)
  /\ lastContext' = context
  /\ lastOp' = "findMatch"
  /\ lastQuery' = None
  /\ UNCHANGED <<rules, addedFrom, lastAdded>>
  /\ prettyCalls' = <<>>
  /\ effects' = <<>>
  /\ UNCHANGED processVars
  /\ UNCHANGED hostVars

\* the rules given to the constructor and to addRules, of this engine and of
\* the shared one, are at most MaxCustom together
WithinBudget(newRules) ==
  Len(rules) + Len(sharedRules) + Len(newRules)
    <= 2 * Len(coreRules) + MaxCustom

\* addRules on a rule set held in a static field, shared by every instance
CallAddRulesStatic(newRules) ==
  /\ WithinBudget(newRules)
  /\ rules' = addRules(rules, newRules)
  /\ sharedRules' = addRules(sharedRules, newRules)
  /\ addedFrom' = Len(rules) + 1
  /\ lastAdded' = newRules
  /\ lastOp' = "addRules"
  /\ lastQuery' = None
  /\ prettyCalls' = <<>>
  /\ effects' = <<>>
  /\ UNCHANGED <<lastError, lastContext, lastResult, catalog, sharedAdded,
                 listeners>>
  /\ UNCHANGED hostVars

CallAddRules(newRules) ==
  /\ WithinBudget(newRules)
  /\ rules' = addRules(rules, newRules)
  /\ addedFrom' = Len(rules) + 1
  /\ lastAdded' = newRules
  /\ lastOp' = "addRules"
  /\ lastQuery' = None
  /\ UNCHANGED <<lastError, lastContext, lastResult>>
  /\ prettyCalls' = <<>>
  /\ effects' = <<>>
  /\ UNCHANGED processVars
  /\ UNCHANGED hostVars

Next ==
  \/ \E error \in Errors, context \in Contexts : CallFindMatch(error, context)
  \/ \E newRules \in RuleSeqs(MaxCustom) : CallAddRules(newRules)

Spec == Init /\ [][Next]_vars

\* lastQuery is the return value of the call just made when that call was
\* one of the three queries
CallGetRulesByCategory(category) ==
  /\ lastQuery' = Some([arg |-> category,
                       result |-> getRulesByCategory(rules, category)])
  /\ lastOp' = "getRulesByCategory"
  /\ UNCHANGED <<rules, lastError, lastContext, lastResult, addedFrom,
                 lastAdded>>
  /\ prettyCalls' = <<>>
  /\ effects' = <<>>
  /\ UNCHANGED processVars
  /\ UNCHANGED hostVars

CallGetRulesByFramework(framework) ==
  /\ lastQuery' = Some([arg |-> framework,
                       result |-> getRulesByFramework(rules, framework)])
  /\ lastOp' = "getRulesByFramework"
  /\ UNCHANGED <<rules, lastError, lastContext, lastResult, addedFrom,
                 lastAdded>>
  /\ prettyCalls' = <<>>
  /\ effects' = <<>>
  /\ UNCHANGED processVars
  /\ UNCHANGED hostVars

CallGetStats ==
  /\ lastQuery' = Some([arg |-> "", result |-> getStats(rules)])
  /\ lastOp' = "getStats"
  /\ UNCHANGED <<rules, lastError, lastContext, lastResult, addedFrom,
                 lastAdded>>
  /\ prettyCalls' = <<>>
  /\ effects' = <<>>
  /\ UNCHANGED processVars
  /\ UNCHANGED hostVars

\* every operation of the engine, called in any order
NextEngine ==
  \/ \E error \in EngineErrors, context \in EngineContexts :
       CallFindMatch(error, context)
  \/ \E newRules \in RuleSeqs(MaxCustom) : CallAddRules(newRules)
  \/ \E category \in Categories : CallGetRulesByCategory(category)
  \/ \E framework \in Frameworks : CallGetRulesByFramework(framework)
  \/ CallGetStats

SpecEngine == Init /\ [][NextEngine]_vars

\* the engine given error-like values without a message and rules whose
\* predicate throws
InitFault == \E customRules \in FaultRuleSeqs(MaxCustom) : Construct(customRules)

NextFault ==
  \/ \E error \in FaultErrors, context \in EngineContexts :
       CallFindMatch(error, context)
  \/ \E newRules \in FaultRuleSeqs(MaxCustom) : CallAddRules(newRules)

SpecFault == InitFault /\ [][NextFault]_vars

\* ruleEngine.addRules(newRules), on the shared instance
SharedAddRules(newRules) ==
  /\ WithinBudget(newRules)
  /\ sharedRules' = addRules(sharedRules, newRules)
  /\ sharedAdded' = sharedAdded \o newRules
  /\ lastOp' = "ruleEngine.addRules"
  /\ lastQuery' = None
  /\ prettyCalls' = <<>>
  /\ effects' = <<>>
  /\ UNCHANGED <<rules, lastError, lastContext, lastResult, addedFrom,
                 lastAdded, catalog, listeners>>
  /\ UNCHANGED hostVars

\* prettyError(error, context)
PrettyError(error, context) ==
  /\ prettyCalls' = <<EngineThenFormatter(sharedRules, error, context)>>
  /\ effects' = <<>>
  /\ lastOp' = "prettyError"
  /\ lastQuery' = None
  /\ UNCHANGED <<rules, lastError, lastContext, lastResult, addedFrom,
                 lastAdded>>
  /\ UNCHANGED processVars
  /\ UNCHANGED hostVars

\* typeof process !== 'undefined' && process.on
HasProcess == environment \in {"node", "both"}

\* typeof window !== 'undefined'
HasWindow == environment \in {"browser", "both"}

\* console.error(formatted), for each call whose formatter returned
consoleErrors(calls) ==
  LET reported == SelectSeq(calls, LAMBDA call : call.formatter # None)
  IN  [k \in 1..Len(reported) |->
         [op |-> "console.error", text |-> reported[k].formatter[1].output]]

\* process.exit(code)
processExit(code) == [op |-> "process.exit", code |-> code]

\* setupGlobalErrorHandlers(context): process.on adds a listener, which
\* keeps the context, to each of the two events; the two window properties
\* are assigned, which replaces the handlers they held
SetupGlobalErrorHandlers(context) ==
  /\ exitCode = None
  /\ Len(listeners) < MaxSetup
  /\ IF HasProcess
     THEN /\ uncaughtListeners' = Append(uncaughtListeners, context)
          /\ listeners' = Append(listeners, context)
     ELSE UNCHANGED <<uncaughtListeners, listeners>>
  /\ IF HasWindow
     THEN /\ onerror' = Some(context)
          /\ onunhandledrejection' = Some(context)
     ELSE UNCHANGED <<onerror, onunhandledrejection>>
  /\ lastOp' = "setupGlobalErrorHandlers"
  /\ lastQuery' = None
  /\ prettyCalls' = <<>>
  /\ effects' = <<>>
  /\ UNCHANGED <<rules, lastError, lastContext, lastResult, addedFrom,
                 lastAdded, catalog, sharedRules, sharedAdded, environment,
                 exitCode, pending>>

\* a promise is rejected with reason and nobody handles it: the registered
\* listeners run
OnUnhandledRejection(reason) ==
  /\ exitCode = None
  /\ listeners # <<>>
  /\ prettyCalls' =
       listenerCalls(sharedRules, listeners, Len(listeners), reason)
  /\ effects' = consoleErrors(prettyCalls')
  /\ lastOp' = "unhandledRejection"
  /\ lastQuery' = None
  /\ UNCHANGED <<rules, lastError, lastContext, lastResult, addedFrom,
                 lastAdded>>
  /\ UNCHANGED processVars
  /\ UNCHANGED hostVars

\* a process that uses an engine of its own next to the shared one
NextProcess ==
  \/ \E newRules \in RuleSeqs(MaxCustom) : CallAddRules(newRules)
  \/ \E newRules \in RuleSeqs(MaxCustom) : SharedAddRules(newRules)
  \/ \E error \in ProcessErrors, context \in EngineContexts :
       PrettyError(error, context)
  \/ \E context \in SetupContexts : SetupGlobalErrorHandlers(context)
  \/ \E reason \in Reasons : OnUnhandledRejection(reason)

SpecProcess == Init /\ [][NextProcess]_vars

(***************************************************************************)
(* The global handlers (global-handlers.ts) in a Node.js process, in a     *)
(* browser, and in a host that has both process and window.                *)
(***************************************************************************)
Environments == {"node", "browser", "both"}

\* the values a program throws: Error objects, and a string
Exceptions ==
  Reasons \cup
  { [isError |-> TRUE,
     error |-> Err("TypeError",
                   "Cannot read properties of undefined (reading 'map')")] }

\* what reading a property the value does not have evaluates to
Undefined == "(undefined)"

\* the thrown value as the listener's parameter error: the listener does
\* not convert it, and a string has neither a message nor a name
asThrown(thrown) ==
  IF thrown.isError THEN thrown.error ELSE [name |-> Undefined]

\* the error events a window gets: a thrown value, or no error object (the
\* fifth argument of onerror is undefined for a script of another origin)
WindowErrors ==
  { [error |-> None, line |-> 1, column |-> 1, source |-> "cdn/lib.js"] } \cup
  { [error |-> Some(thrown), line |-> 10, column |-> 5, source |-> "app.js"] :
      thrown \in Exceptions }

\* { ...context, line, column, code: source }
spreadContext(context, event) ==
  Some([framework |-> IF context = None THEN None ELSE context[1].framework,
        line |-> event.line, column |-> event.column, code |-> event.source])

\* the listener of uncaughtException after its findMatch and formatError
\* calls: console.error(formatted), then process.exit(1).  An exception
\* raised inside the listener ends the process with Node's exit code 7, with
\* nothing written by the listener
reportThenExit(call) ==
  IF call.formatter = None
  THEN [effects |-> <<>>, exitCode |-> Some(7)]
  ELSE [effects |-> consoleErrors(<<call>>) \o <<processExit(1)>>,
        exitCode |-> Some(1)]

\* an exception reaches the top of the stack in Node.js.  Without a listener
\* the runtime prints the stack itself and ends the process with code 1;
\* with listeners the first one runs, and it ends the process
OnUncaughtException(thrown) ==
  /\ exitCode = None
  /\ HasProcess
  /\ IF uncaughtListeners = <<>>
     THEN /\ prettyCalls' = <<>>
          /\ effects' = <<>>
          /\ exitCode' = Some(1)
     ELSE /\ prettyCalls' =
               <<EngineThenFormatter(sharedRules, asThrown(thrown),
                                     uncaughtListeners[1])>>
          /\ effects' = reportThenExit(prettyCalls'[1]).effects
          /\ exitCode' = reportThenExit(prettyCalls'[1]).exitCode
  /\ lastOp' = "uncaughtException"
  /\ lastQuery' = None
  /\ UNCHANGED <<rules, lastError, lastContext, lastResult, addedFrom,
                 lastAdded, environment, uncaughtListeners, onerror,
                 onunhandledrejection, pending>>
  /\ UNCHANGED processVars

\* a promise is rejected, nobody handles it and no listener is registered:
\* the runtime warns and goes on, or ends the process with code 1, as its
\* version has it
OnUnhandledRejectionDefault(reason) ==
  /\ exitCode = None
  /\ HasProcess
  /\ listeners = <<>>
  /\ exitCode' \in {None, Some(1)}
  /\ prettyCalls' = <<>>
  /\ effects' = <<>>
  /\ lastOp' = "unhandledRejection"
  /\ lastQuery' = None
  /\ UNCHANGED <<rules, lastError, lastContext, lastResult, addedFrom,
                 lastAdded, environment, uncaughtListeners, onerror,
                 onunhandledrejection, pending>>
  /\ UNCHANGED processVars

\* the window gets an error event: window.onerror runs if it is set
OnWindowError(event) ==
  /\ exitCode = None
  /\ HasWindow
  /\ IF onerror = None \/ event.error = None
     THEN prettyCalls' = <<>>
     ELSE prettyCalls' =
            <<EngineThenFormatter(sharedRules, asThrown(event.error[1]),
                                  spreadContext(onerror[1], event))>>
  /\ effects' = consoleErrors(prettyCalls')
  /\ lastOp' = "window.onerror"
  /\ lastQuery' = None
  /\ UNCHANGED <<rules, lastError, lastContext, lastResult, addedFrom,
                 lastAdded>>
  /\ UNCHANGED processVars
  /\ UNCHANGED hostVars

\* the window gets an unhandledrejection event: window.onunhandledrejection
\* runs if it is set
OnWindowUnhandledRejection(reason) ==
  /\ exitCode = None
  /\ HasWindow
  /\ IF onunhandledrejection = None
     THEN prettyCalls' = <<>>
     ELSE prettyCalls' =
            <<EngineThenFormatter(sharedRules, toError(reason),
                                  onunhandledrejection[1])>>
  /\ effects' = consoleErrors(prettyCalls')
  /\ lastOp' = "window.onunhandledrejection"
  /\ lastQuery' = None
  /\ UNCHANGED <<rules, lastError, lastContext, lastResult, addedFrom,
                 lastAdded>>
  /\ UNCHANGED processVars
  /\ UNCHANGED hostVars

\* the handlers in place: the listeners of the two process events and the
\* values of the two window properties
Handlers ==
  [uncaughtException |-> uncaughtListeners, unhandledRejection |-> listeners,
   onerror |-> onerror, onunhandledrejection |-> onunhandledrejection]

\* removeGlobalErrorHandlers that leaves the unhandledRejection listeners
RemoveUncaughtOnly ==
  /\ exitCode = None
  /\ IF HasProcess
     THEN /\ uncaughtListeners' = <<>>
          /\ UNCHANGED listeners
     ELSE UNCHANGED <<uncaughtListeners, listeners>>
  /\ IF HasWindow
     THEN /\ onerror' = None
          /\ onunhandledrejection' = None
     ELSE UNCHANGED <<onerror, onunhandledrejection>>
  /\ lastOp' = "removeGlobalErrorHandlers"
  /\ lastQuery' = Some([arg |-> "handlers", result |-> Handlers])
  /\ prettyCalls' = <<>>
  /\ effects' = <<>>
  /\ UNCHANGED <<rules, lastError, lastContext, lastResult, addedFrom,
                 lastAdded, catalog, sharedRules, sharedAdded, environment,
                 exitCode, pending>>

\* removeGlobalErrorHandlers(): removeAllListeners for the two events, and
\* null for the two window properties
RemoveGlobalErrorHandlers ==
  /\ exitCode = None
  /\ IF HasProcess
     THEN /\ uncaughtListeners' = <<>>
          /\ listeners' = <<>>
     ELSE UNCHANGED <<uncaughtListeners, listeners>>
  /\ IF HasWindow
     THEN /\ onerror' = None
          /\ onunhandledrejection' = None
     ELSE UNCHANGED <<onerror, onunhandledrejection>>
  /\ lastOp' = "removeGlobalErrorHandlers"
  /\ lastQuery' = Some([arg |-> "handlers", result |-> Handlers])
  /\ prettyCalls' = <<>>
  /\ effects' = <<>>
  /\ UNCHANGED <<rules, lastError, lastContext, lastResult, addedFrom,
                 lastAdded, catalog, sharedRules, sharedAdded, environment,
                 exitCode, pending>>

InitHandlers == \E host \in Environments : ConstructIn(<<>>, host)

\* a process that adds rules to the shared engine and installs the handlers
NextHandlers ==
  \/ \E newRules \in RuleSeqs(MaxCustom) : SharedAddRules(newRules)
  \/ \E context \in EngineContexts : SetupGlobalErrorHandlers(context)
  \/ RemoveGlobalErrorHandlers
  \/ \E thrown \in Exceptions : OnUncaughtException(thrown)
  \/ \E reason \in Reasons : OnUnhandledRejection(reason)
  \/ \E reason \in Reasons : OnUnhandledRejectionDefault(reason)
  \/ \E event \in WindowErrors : OnWindowError(event)
  \/ \E reason \in Reasons : OnWindowUnhandledRejection(reason)

SpecHandlers == InitHandlers /\ [][NextHandlers]_vars

(***************************************************************************)
(* The legacy lookup and prettyTry / prettyTryAsync (core/index.ts).  A    *)
(* call of fn is given by its outcome: it returns a value or throws one,   *)
(* or it returns a promise that resolves with a value or rejects with one. *)
(***************************************************************************)
errorMappings == <<
  [key |-> "Cannot read properties of undefined",
   mapping |->
     [reason |-> "You tried to use something before it existed.",
      fix |->
        "Check if the value exists first using optional chaining (?.) or if statements.",
      suggestions |->
        <<"Try: value?.property instead of value.property",
          "Add: if (value) { /* your code */ }",
          "Initialize the variable before using it">>]],
  [key |-> "Cannot read properties of null",
   mapping |->
     [reason |-> "You tried to access properties on a null value.",
      fix |->
        "Check if the value is null before accessing its properties.",
      suggestions |->
        <<"Use optional chaining: value?.property",
          "Add null check: if (value !== null)",
          "Provide a default value: value || defaultValue">>]],
  [key |-> "map is not a function",
   mapping |->
     [reason |-> "You tried to call map() on something that isn't an array.",
      fix |->
        "Make sure you're calling map() on an actual array.",
      suggestions |->
        <<"Check if the value is an array: Array.isArray(value)",
          "Convert to array first: Array.from(value)",
          "Use optional chaining: value?.map(...)">>]],
  [key |-> "Unexpected token",
   mapping |->
     [reason |-> "Failed to parse JSON - the response isn't valid JSON.",
      fix |->
        "The API probably returned HTML or an error message instead of JSON.",
      suggestions |->
        <<"Check response.status before parsing",
          "Log the raw response: console.log(await response.text())",
          "Verify the API endpoint is correct">>]],
  [key |-> "Failed to fetch",
   mapping |->
     [reason |-> "Network request failed - can't reach the server.",
      fix |->
        "Check your internet connection and the API URL.",
      suggestions |->
        <<"Verify the URL is correct",
          "Check if the server is running",
          "Try accessing the URL in your browser">>]],
  [key |-> "await is only valid in async functions",
   mapping |->
     [reason |-> "You used await outside of an async function.",
      fix |->
        "Add the async keyword to your function declaration.",
      suggestions |->
        <<"Change: function myFunc() to async function myFunc()",
          "For arrow functions: () => {} to async () => {}",
          "Use .then() instead of await if not in async function">>]],
  [key |-> "module not found",
   mapping |->
     [reason |-> "The module you're trying to import doesn't exist.",
      fix |->
        "Install the missing package or check the import path.",
      suggestions |->
        <<"Run: npm install package-name",
          "Check spelling in the import statement",
          "Verify the file path is correct">>]] >>

\* the property names every object literal inherits from Object.prototype
ObjectPrototypeNames ==
  { "constructor", "hasOwnProperty", "isPrototypeOf", "propertyIsEnumerable",
    "toLocaleString", "toString", "valueOf", "__proto__", "__defineGetter__",
    "__defineSetter__", "__lookupGetter__", "__lookupSetter__" }

\* { message: errorMessage, ...explanation }
explain(errorMessage, explanation) ==
  [message |-> errorMessage, reason |-> explanation.reason,
   fix |-> explanation.fix, suggestions |-> explanation.suggestions]

\* the explanation returned when no key applies
fallbackExplanation(errorMessage) ==
  [message |-> errorMessage,
   reason |-> "Something went wrong, but this error type isn't mapped yet.",
   fix |-> "Check the error message and try to understand what went wrong.",
   suggestions |->
     <<"Look at the line number in the error",
       "Check your variable values",
       "Search online for this specific error">>]

\* errorMappings[errorMessage] is truthy for a key of the table and also for
\* a name inherited from Object.prototype, whose value is a function (for
\* __proto__ the prototype object) that the spread copies nothing from;
\* Object.entries lists the keys in the order of declaration
getErrorExplanation(error) ==
  LET errorMessage == error.message
      exact == {i \in 1..Len(errorMappings) :
                  errorMappings[i].key = errorMessage}
      partial == {i \in 1..Len(errorMappings) :
                    includes(errorMessage, errorMappings[i].key)}
  IN  IF exact # {}
      THEN explain(errorMessage,
                   errorMappings[CHOOSE i \in exact : TRUE].mapping)
      ELSE IF errorMessage \in ObjectPrototypeNames
      THEN [message |-> errorMessage]
      ELSE IF partial # {}
      THEN explain(errorMessage,
                   errorMappings[CHOOSE i \in partial :
                                   \A j \in partial : i <= j].mapping)
      ELSE fallbackExplanation(errorMessage)

\* the catch block of prettyTry and of prettyTryAsync: a value that is not an
\* Error gets message String(error)
catchBlock(thrown) ==
  IF thrown.isError
  THEN [success |-> FALSE, error |-> getErrorExplanation(thrown.error)]
  ELSE [success |-> FALSE,
        error |-> [message |-> thrown.text,
                   reason |-> "An unknown error occurred.",
                   fix |-> "Check your code for potential issues.",
                   suggestions |-> <<"Add proper error handling",
                                     "Validate your inputs">>]]

\* prettyTry whose catch block throws what is not an Error again
prettyTryRethrow(outcome) ==
  IF outcome.kind = "returns"
  THEN [kind |-> "returns",
        value |-> [success |-> TRUE, data |-> outcome.value]]
  ELSE IF outcome.thrown.isError
  THEN [kind |-> "returns", value |-> catchBlock(outcome.thrown)]
  ELSE [kind |-> "throws", thrown |-> outcome.thrown]

\* prettyTry(fn): how the call ends
prettyTry(outcome) ==
  IF outcome.kind = "returns"
  THEN [kind |-> "returns",
        value |-> [success |-> TRUE, data |-> outcome.value]]
  ELSE [kind |-> "returns", value |-> catchBlock(outcome.thrown)]

\* prettyTryAsync(fn): how the promise it returned settles.  await takes a
\* value that is not a promise as it is, and a throw of fn as a rejection
prettyTryAsync(outcome) ==
  IF outcome.kind \in {"returns", "resolves"}
  THEN [kind |-> "fulfilled",
        value |-> [success |-> TRUE, data |-> outcome.value]]
  ELSE [kind |-> "fulfilled", value |-> catchBlock(outcome.thrown)]

\* the messages of the Errors thrown: a key, messages that contain one key or
\* two, messages that contain none, and a name of Object.prototype
LegacyMessages ==
  { "Failed to fetch",
    "Cannot read properties of undefined (reading 'map')",
    "Cannot read properties of null (reading 'id')",
    "data.map is not a function",
    "Failed to fetch: Unexpected token < in JSON at position 0",
    "Module not found",
    "xyz totally unrecognized condition qqq",
    "",
    "constructor" }

\* what fn throws: an Error, or a string
LegacyThrown ==
  { [isError |-> TRUE, error |-> Err("Error", message)] :
      message \in LegacyMessages } \cup
  { [isError |-> FALSE, text |-> "Request timeout after 30s"],
    [isError |-> FALSE, text |-> "Failed to fetch"] }

Values == { "ok", "" }

SyncOutcomes ==
  { [kind |-> "returns", value |-> v] : v \in Values } \cup
  { [kind |-> "throws", thrown |-> t] : t \in LegacyThrown }

\* the outcomes of the functions given to prettyTryAsync
AsyncOutcomes ==
  { [kind |-> "returns", value |-> "ok"],
    [kind |-> "resolves", value |-> "ok"],
    [kind |-> "throws",
     thrown |-> [isError |-> TRUE,
                 error |-> Err("Error", "data.map is not a function")]] } \cup
  { [kind |-> "rejects", thrown |-> t] :
      t \in { [isError |-> TRUE, error |-> Err("Error", "Failed to fetch")],
              [isError |-> TRUE,
               error |-> Err("Error",
                             "xyz totally unrecognized condition qqq")],
              [isError |-> TRUE, error |-> Err("Error", "constructor")],
              [isError |-> FALSE, text |-> "Request timeout after 30s"] } }

\* prettyTry(fn)
PrettyTry(outcome) ==
  /\ exitCode = None
  /\ lastOp' = "prettyTry"
  /\ lastQuery' = Some([arg |-> outcome, result |-> prettyTry(outcome)])
  /\ prettyCalls' = <<>>
  /\ effects' = <<>>
  /\ UNCHANGED <<rules, lastError, lastContext, lastResult, addedFrom,
                 lastAdded>>
  /\ UNCHANGED processVars
  /\ UNCHANGED hostVars

\* prettyTryAsync(fn): the call returns a promise, which settles in a later
\* step
PrettyTryAsync(outcome) ==
  /\ exitCode = None
  /\ Len(pending) < MaxPending
  /\ pending' = Append(pending, [by |-> "prettyTryAsync", fn |-> outcome])
  /\ lastOp' = "prettyTryAsync"
  /\ lastQuery' = Some([arg |-> outcome, result |-> [kind |-> "pending"]])
  /\ prettyCalls' = <<>>
  /\ effects' = <<>>
  /\ UNCHANGED <<rules, lastError, lastContext, lastResult, addedFrom,
                 lastAdded, environment, uncaughtListeners, onerror,
                 onunhandledrejection, exitCode>>
  /\ UNCHANGED processVars

\* the sequence without its element i
RemoveAt(seq, i) == SubSeq(seq, 1, i - 1) \o SubSeq(seq, i + 1, Len(seq))

\* the promise that prettyTryAsync returned settles: the rest of the async
\* function runs
SettlePrettyTryAsync(i) ==
  /\ exitCode = None
  /\ i \in 1..Len(pending)
  /\ pending[i].by = "prettyTryAsync"
  /\ pending' = RemoveAt(pending, i)
  /\ lastOp' = "prettyTryAsync settled"
  /\ lastQuery' = Some([arg |-> pending[i].fn,
                        result |-> prettyTryAsync(pending[i].fn)])
  /\ prettyCalls' = <<>>
  /\ effects' = <<>>
  /\ UNCHANGED <<rules, lastError, lastContext, lastResult, addedFrom,
                 lastAdded, environment, uncaughtListeners, onerror,
                 onunhandledrejection, exitCode>>
  /\ UNCHANGED processVars

InitLegacy == Construct(<<>>)

NextLegacy ==
  \/ \E outcome \in SyncOutcomes : PrettyTry(outcome)
  \/ \E outcome \in AsyncOutcomes : PrettyTryAsync(outcome)
  \/ \E i \in 1..MaxPending : SettlePrettyTryAsync(i)

SpecLegacy == InitLegacy /\ [][NextLegacy]_vars

(***************************************************************************)
(* wrapWithErrorHandler (core/pretty-error.ts).                            *)
(***************************************************************************)
\* the outcomes of the wrapped functions
WrapOutcomes ==
  { [kind |-> "returns", value |-> v] : v \in Values } \cup
  { [kind |-> "resolves", value |-> "ok"] } \cup
  { [kind |-> "throws", thrown |-> t] : t \in Exceptions } \cup
  { [kind |-> "rejects", thrown |-> t] : t \in Exceptions }

\* the context given to wrapWithErrorHandler
WrapContexts == { Ctx(Some("react")) }

\* the TypeError of reading includes of an undefined message
TypeErrorOfIncludes ==
  [isError |-> TRUE,
   error |-> Err("TypeError",
                 "Cannot read properties of undefined (reading 'includes')")]

\* the wrapper is called and fn returns a value that has no catch method, or
\* throws: the catch block logs new Error(String(error)) for a value that is
\* not an Error, and throws the value it caught
CallWrapped(outcome, context) ==
  /\ exitCode = None
  /\ outcome.kind \in {"returns", "throws"}
  /\ IF outcome.kind = "returns"
     THEN prettyCalls' = <<>>
     ELSE prettyCalls' =
            <<EngineThenFormatter(sharedRules, toError(outcome.thrown),
                                  context)>>
  /\ effects' = consoleErrors(prettyCalls')
  /\ lastOp' = "wrapped"
  /\ lastQuery' = Some([arg |-> outcome, result |-> outcome])
  /\ UNCHANGED <<rules, lastError, lastContext, lastResult, addedFrom,
                 lastAdded>>
  /\ UNCHANGED processVars
  /\ UNCHANGED hostVars

\* the wrapper is called and fn returns a promise: the wrapper returns
\* result.catch(callback), which settles in a later step
CallWrappedAsync(outcome, context) ==
  /\ exitCode = None
  /\ outcome.kind \in {"resolves", "rejects"}
  /\ Len(pending) < MaxPending
  /\ pending' = Append(pending, [by |-> "wrapWithErrorHandler",
                                 fn |-> outcome, context |-> context])
  /\ lastOp' = "wrapped"
  /\ lastQuery' = Some([arg |-> outcome, result |-> [kind |-> "pending"]])
  /\ prettyCalls' = <<>>
  /\ effects' = <<>>
  /\ UNCHANGED <<rules, lastError, lastContext, lastResult, addedFrom,
                 lastAdded, environment, uncaughtListeners, onerror,
                 onunhandledrejection, exitCode>>
  /\ UNCHANGED processVars

\* how the promise of result.catch(callback) settles, given the call the
\* callback made: with the reason of fn's promise, thrown again by the
\* callback, or with the exception that ended logPrettyError
settleCatch(outcome, calls) ==
  IF outcome.kind = "resolves"
  THEN [kind |-> "fulfilled", value |-> outcome.value]
  ELSE IF calls[1].formatter = None
  THEN [kind |-> "rejected", thrown |-> TypeErrorOfIncludes]
  ELSE [kind |-> "rejected", thrown |-> outcome.thrown]

\* the promise fn returned settles: on a rejection the callback runs, which
\* gives logPrettyError the reason as it is
SettleWrapped(i) ==
  /\ exitCode = None
  /\ i \in 1..Len(pending)
  /\ pending[i].by = "wrapWithErrorHandler"
  /\ pending' = RemoveAt(pending, i)
  /\ IF pending[i].fn.kind = "resolves"
     THEN prettyCalls' = <<>>
     ELSE prettyCalls' =
            <<EngineThenFormatter(sharedRules, asThrown(pending[i].fn.thrown),
                                  pending[i].context)>>
  /\ effects' = consoleErrors(prettyCalls')
  /\ lastOp' = "wrapped settled"
  /\ lastQuery' = Some([arg |-> pending[i].fn,
                        result |-> settleCatch(pending[i].fn, prettyCalls')])
  /\ UNCHANGED <<rules, lastError, lastContext, lastResult, addedFrom,
                 lastAdded, environment, uncaughtListeners, onerror,
                 onunhandledrejection, exitCode>>
  /\ UNCHANGED processVars

InitWrap == Construct(<<>>)

\* a program that adds rules to the shared engine and calls wrapped
\* functions
NextWrap ==
  \/ \E newRules \in RuleSeqs(MaxCustom) : SharedAddRules(newRules)
  \/ \E outcome \in WrapOutcomes, context \in WrapContexts :
       CallWrapped(outcome, context)
  \/ \E outcome \in WrapOutcomes, context \in WrapContexts :
       CallWrappedAsync(outcome, context)
  \/ \E i \in 1..MaxPending : SettleWrapped(i)

SpecWrap == InitWrap /\ [][NextWrap]_vars

(***************************************************************************)
(* Properties of findMatch.  They speak of the call whose inputs and       *)
(* return value the state holds: lastError, lastContext, lastResult.  That *)
(* call ran against the current rule set exactly when lastOp is            *)
(* "findMatch".                                                            *)
(***************************************************************************)
FZero == [c |-> 0, d |-> 0]

FOne == Lit(100)

Returned == lastOp = "findMatch"

\* the indices of the rules whose predicate is true for the error
Candidates(rs, error) == {i \in 1..Len(rs) : match(rs[i], error)}

\* the candidates no other candidate beats
Top(rs, error, context) ==
  {i \in Candidates(rs, error) :
     \A j \in Candidates(rs, error) :
        FLeq(calculateConfidence(rs[j], error, context),
             calculateConfidence(rs[i], error, context))}

SetMin(S) == CHOOSE i \in S : \A j \in S : i <= j

\* C1: a non-null result of findMatch has a confidence c with
\* 0.0 <= c <= 1.0, for every error, context and rule set.
C1_ConfidenceInUnitInterval ==
  lastResult # None =>
    /\ FLeq(FZero, lastResult[1].confidence)
    /\ FLeq(lastResult[1].confidence, FOne)

\* a match was returned whose running total exceeded 1.0 before the clamp
C1_Witness ==
  /\ Returned
  /\ lastResult # None
  /\ lastResult[1].confidence = FOne
  /\ FLess(FOne, rawConfidence(lastResult[1].rule, lastError[1], lastContext))

\* C2: the returned rule's predicate is true for the error and its
\* confidence is at least that of every other rule of the current rule set
\* whose predicate is true.
C2_ReturnsHighestScore ==
  (Returned /\ lastResult # None) =>
    /\ lastResult[1].idx \in 1..Len(rules)
    /\ lastResult[1].rule = rules[lastResult[1].idx]
    /\ match(lastResult[1].rule, lastError[1])
    /\ \A i \in Candidates(rules, lastError[1]) :
         FLeq(calculateConfidence(rules[i], lastError[1], lastContext),
              lastResult[1].confidence)

\* the winner beat a candidate that stands before it in the rule set
C2_Witness ==
  /\ Returned
  /\ lastResult # None
  /\ \E i \in Candidates(rules, lastError[1]) :
       /\ i < lastResult[1].idx
       /\ FLess(calculateConfidence(rules[i], lastError[1], lastContext),
                lastResult[1].confidence)

\* C3: when two or more candidates share the maximal confidence, findMatch
\* returns the one with the smallest index in the rule set, the rule set
\* being the core rules, then the constructor's rules, then appended rules.
C3_TieGoesToEarliest ==
  /\ SubSeq(rules, 1, Len(coreRules)) = coreRules
  /\ (Returned /\ Cardinality(Top(rules, lastError[1], lastContext)) >= 2) =>
       /\ lastResult # None
       /\ lastResult[1].idx = SetMin(Top(rules, lastError[1], lastContext))

\* a core rule and a caller's rule tie at the top, and the core rule is
\* returned
C3_Witness ==
  /\ Returned
  /\ lastResult # None
  /\ lastResult[1].idx <= Len(coreRules)
  /\ \E i \in Top(rules, lastError[1], lastContext) : i > Len(coreRules)

\* C4: findMatch returns null if and only if no rule of the current rule
\* set has a predicate that is true for the error.
C4_NullIffNoCandidate ==
  Returned => (lastResult = None <=> Candidates(rules, lastError[1]) = {})

\* both outcomes of C4: here no predicate is true and null was returned
C4_Witness ==
  /\ Returned
  /\ lastResult = None
  /\ Candidates(rules, lastError[1]) = {}
  /\ Len(rules) > Len(coreRules)

\* "context.framework is set": present and not the empty string
FrameworkSet(context) ==
  /\ context # None
  /\ context[1].framework # None
  /\ context[1].framework[1] # ""

\* "context.framework is set and is a member of the rule's frameworks"
FrameworkApplies(rule, context) ==
  /\ FrameworkSet(context)
  /\ rule.frameworks # None
  /\ \E k \in 1..Len(rule.frameworks[1]) :
       rule.frameworks[1][k] = context[1].framework[1]

\* k/100 * [b]
Times(k, b) == IF b THEN Lit(k) ELSE FZero

\* min(1.0, 0.5 + 0.3*[title] + 0.2*[framework] + 0.1*[name] + s)
ClaimedConfidence(rule, error, context) ==
  LET t == includes(toLowerCase(error.message), toLowerCase(rule.title))
      f == FrameworkApplies(rule, context)
      n == /\ error.name # ""
           /\ includes(toLowerCase(rule.name), toLowerCase(error.name))
      s == IF rule.severity = Some("critical") THEN Lit(10)
           ELSE IF rule.severity = Some("high") THEN Lit(5)
           ELSE FZero
  IN  FMin(FOne,
        FAdd(FAdd(FAdd(FAdd(Lit(50), Times(30, t)), Times(20, f)),
                  Times(10, n)), s))

\* C5: the confidence of a candidate is min(1.0, 0.5 + 0.3*[message
\* contains title] + 0.2*[framework set and listed] + 0.1*[name non-empty
\* and contained in rule name] + s), s being 0.1 for critical, 0.05 for
\* high and 0 otherwise; it is a function of that rule alone.
C5_ConfidenceFormula ==
  Returned =>
    /\ \A i \in Candidates(rules, lastError[1]) :
         calculateConfidence(rules[i], lastError[1], lastContext)
           = ClaimedConfidence(rules[i], lastError[1], lastContext)
    /\ lastResult # None =>
         lastResult[1].confidence
           = ClaimedConfidence(lastResult[1].rule, lastError[1], lastContext)

\* a match whose score has the framework, name and severity terms
C5_Witness ==
  /\ Returned
  /\ lastResult # None
  /\ FrameworkApplies(lastResult[1].rule, lastContext)
  /\ lastResult[1].rule.severity = Some("high")
  /\ includes(toLowerCase(lastResult[1].rule.name),
              toLowerCase(lastError[1].name))
  /\ FLess(lastResult[1].confidence, FOne)

\* C6: a candidate whose title the message contains, case-insensitively,
\* has a confidence of at least 0.8 under every context.
C6_TitleMatchAtLeastPoint8 ==
  Returned =>
    \A i \in Candidates(rules, lastError[1]) :
      includes(toLowerCase(lastError[1].message), toLowerCase(rules[i].title))
        => \A context \in Contexts :
             FLeq(Lit(80),
                  calculateConfidence(rules[i], lastError[1], context))

\* a candidate whose title is found only after lowercasing scores exactly 0.8
C6_Witness ==
  /\ Returned
  /\ \E i \in Candidates(rules, lastError[1]) :
       /\ rules[i].title # ""
       /\ ~includes(lastError[1].message, rules[i].title)
       /\ includes(toLowerCase(lastError[1].message),
                   toLowerCase(rules[i].title))
       /\ calculateConfidence(rules[i], lastError[1], lastContext) = Lit(80)

\* the indices of the rules findMatch scores under a context
Scored(rs, error, context) ==
  LET matches == collectMatches(rs, Len(rs), error, context)
  IN  {matches[k].idx : k \in 1..Len(matches)}

\* C7: for a fixed rule set and error the candidates are the same under
\* every context, so findMatch returns null under one context exactly when
\* it does under every other.
C7_ContextNeverExcludes ==
  Returned =>
    \A context \in Contexts :
      /\ Scored(rules, lastError[1], context)
           = Scored(rules, lastError[1], lastContext)
      /\ (findMatch(rules, lastError[1], context) = None)
           <=> (lastResult = None)

\* another context gives the same error another winner
C7_Witness ==
  /\ Returned
  /\ lastResult # None
  /\ \E context \in Contexts :
       findMatch(rules, lastError[1], context)[1].idx # lastResult[1].idx

\* C8 as stated: the bonus is applied exactly when context.framework is set
\* and listed by the rule, and the confidence with the bonus equals
\* min(1.0, confidence without context + 0.2).
C8_Original ==
  Returned =>
    \A i \in Candidates(rules, lastError[1]) :
      \A context \in Contexts :
        calculateConfidence(rules[i], lastError[1], context)
          = IF FrameworkApplies(rules[i], context)
            THEN FMin(FOne,
                   FAdd(calculateConfidence(rules[i], lastError[1], None),
                        Lit(20)))
            ELSE calculateConfidence(rules[i], lastError[1], None)

\* x and y are the same or neighbouring binary64 numbers of [0.5, 1.0]
WithinOneUlp(x, y) ==
  /\ x.c = y.c
  /\ x.d - y.d <= UlpUnits(53)
  /\ y.d - x.d <= UlpUnits(53)

\* C8 (amended): when context.framework is a non-empty string the rule
\* lists, the confidence is at least the confidence without context,
\* strictly greater when that is below 1.0, and within one binary64 step
\* of min(1.0, confidence without context + 0.2); otherwise it equals the
\* confidence without context.
C8_FrameworkBonus ==
  Returned =>
    \A i \in Candidates(rules, lastError[1]) :
      \A context \in Contexts :
        LET without == calculateConfidence(rules[i], lastError[1], None)
            with == calculateConfidence(rules[i], lastError[1], context)
        IN  IF FrameworkApplies(rules[i], context)
            THEN /\ FLeq(without, with)
                 /\ FLess(without, FOne) => FLess(without, with)
                 /\ WithinOneUlp(with, FMin(FOne, FAdd(without, Lit(20))))
            ELSE with = without

\* the bonus was applied and the result is not confidence without context
\* + 0.2
C8_Witness ==
  /\ Returned
  /\ lastResult # None
  /\ FrameworkApplies(lastResult[1].rule, lastContext)
  /\ lastResult[1].confidence
       # FMin(FOne,
           FAdd(calculateConfidence(lastResult[1].rule, lastError[1], None),
                Lit(20)))

\* the scenario of C9: the shipped catalog alone, no context
UndefinedMapScenario ==
  /\ Returned
  /\ rules = coreRules
  /\ lastError =
       Some(Err("TypeError",
                "Cannot read properties of undefined (reading 'map')"))
  /\ lastContext = None

\* C9 as stated: the scenario returns rule 'undefined-property' with
\* confidence >= 0.8.
C9_Original ==
  UndefinedMapScenario =>
    /\ lastResult # None
    /\ lastResult[1].rule.id = "undefined-property"
    /\ FLeq(Lit(80), lastResult[1].confidence)

\* C9 (amended): the scenario returns rule 'undefined-property' with
\* confidence 0.55, the base 0.5 plus 0.05 for severity high.
C9_UndefinedPropertyScenario ==
  UndefinedMapScenario =>
    /\ lastResult # None
    /\ lastResult[1].rule.id = "undefined-property"
    /\ lastResult[1].confidence = Lit(55)

C9_Witness == UndefinedMapScenario /\ lastResult # None

\* the error matches a rule given to the last addRules and no rule that was
\* in the rule set before that call
MatchesOnlyAdded ==
  /\ addedFrom > 0
  /\ \E k \in 1..Len(lastAdded) : match(lastAdded[k], lastError[1])
  /\ \A i \in 1..(addedFrom - 1) :
       i <= Len(rules) => ~match(rules[i], lastError[1])

\* C10: findMatch after addRules(rs), with an error that only rules of rs
\* match, returns a match that references a rule appended by that call.
C10_AppendedRuleIsFound ==
  (Returned /\ MatchesOnlyAdded) =>
    /\ lastResult # None
    /\ lastResult[1].idx >= addedFrom
    /\ lastResult[1].idx - addedFrom + 1 <= Len(lastAdded)
    /\ lastResult[1].rule = lastAdded[lastResult[1].idx - addedFrom + 1]

C10_Witness == Returned /\ MatchesOnlyAdded /\ lastResult # None

(***************************************************************************)
(* Properties of the rule set and of the queries, under SpecEngine.        *)
(***************************************************************************)
IsPrefix(s, t) == Len(s) <= Len(t) /\ SubSeq(t, 1, Len(s)) = s

\* C11: the rule set is append-only.  Whatever the call (findMatch, addRules,
\* getRulesByCategory, getRulesByFramework, getStats), the rule sequence
\* before the call is a prefix of the rule sequence after it, and
\* addRules(rs) leaves exactly the old sequence followed by rs.
C11_AppendOnly ==
  [][/\ IsPrefix(rules, rules')
     /\ lastOp' = "addRules" => rules' = rules \o lastAdded']_vars

\* a rule was appended behind a rule the constructor had appended
C11_Witness ==
  /\ lastOp = "addRules"
  /\ Len(lastAdded) = 1
  /\ addedFrom = Len(coreRules) + 2
  /\ rules = coreRules \o <<rules[Len(coreRules) + 1]>> \o lastAdded
  /\ lastAdded[1] # rules[Len(coreRules) + 1]

\* the rule set holds the whole of the sequence given to the last addRules
WholeAppend(rs, from, added) ==
  from > 0 => rs = SubSeq(rs, 1, from - 1) \o added

\* C12: the calls of the callers that share an engine interleave as whole
\* calls (findMatch and addRules are synchronous and run to completion).
\* Every findMatch answers for a complete rule set: the one that holds the
\* whole sequence of the last addRules before it, and, when an addRules
\* follows it, the one from before that addRules; never a rule set with
\* only part of an appended sequence.
C12_NeverPartialAppend ==
  [][/\ lastOp' = "findMatch" =>
          /\ WholeAppend(rules', addedFrom', lastAdded')
          /\ lastResult' = findMatch(rules', lastError'[1], lastContext')
     /\ (lastOp = "findMatch" /\ lastOp' = "addRules") =>
          /\ lastResult' = findMatch(rules, lastError'[1], lastContext')
          /\ rules' = rules \o lastAdded']_vars

\* a findMatch that followed an addRules of two rules returned the second
\* of them
C12_Witness ==
  /\ lastOp = "findMatch"
  /\ Len(lastAdded) = 2
  /\ lastResult # None
  /\ lastResult[1].idx = addedFrom + 1
  /\ lastResult[1].idx = Len(rules)

\* the sum of counts[k] over the keys k
RECURSIVE SumCounts(_, _)
SumCounts(counts, keys) ==
  IF keys = {} THEN 0
  ELSE LET k == CHOOSE key \in keys : TRUE
       IN  counts[k] + SumCounts(counts, keys \ {k})

\* C15: the totalRules of the statistics getStats returns equals the sum,
\* over the six categories, of the length of getRulesByCategory(category),
\* and equals the sum of the byCategory counts.
C15_TotalIsSumOfCategories ==
  lastOp = "getStats" =>
    LET stats == lastQuery[1].result
        lengths == [c \in Categories |-> Len(getRulesByCategory(rules, c))]
    IN  /\ stats.totalRules = SumCounts(lengths, Categories)
        /\ stats.totalRules =
             SumCounts(stats.byCategory, DOMAIN stats.byCategory)
        /\ \A c \in DOMAIN stats.byCategory :
             c \in Categories /\ stats.byCategory[c] = lengths[c]

\* getStats was called on an engine that holds caller-supplied rules of two
\* categories besides the catalog
C15_Witness ==
  /\ lastOp = "getStats"
  /\ lastQuery[1].result.totalRules = Len(coreRules) + 2
  /\ lastQuery[1].result.byCategory["network"] = 2
  /\ lastQuery[1].result.byCategory["javascript"] = 5
  /\ DOMAIN lastQuery[1].result.byCategory = Categories

\* counts[key], and 0 for a key the record does not have
CountOf(counts, key) == IF key \in DOMAIN counts THEN counts[key] ELSE 0

\* the rules whose frameworks contains the name
RulesNaming(rs, framework) ==
  {i \in 1..Len(rs) :
     /\ rs[i].frameworks # None
     /\ \E k \in 1..Len(rs[i].frameworks[1]) :
          rs[i].frameworks[1][k] = framework}

\* C16: the statistics getStats returns are those of the current rule set,
\* also after addRules: the bySeverity counts sum to totalRules, with the
\* rules that have no severity under "unknown", and byFramework[f] is the
\* number of rules whose frameworks contains f, which is the length of
\* getRulesByFramework(f).
C16_StatsReflectRuleSet ==
  lastOp = "getStats" =>
    LET stats == lastQuery[1].result
    IN  /\ stats.totalRules = Len(rules)
        /\ SumCounts(stats.bySeverity, DOMAIN stats.bySeverity) = Len(rules)
        /\ CountOf(stats.bySeverity, "unknown") =
             Cardinality({i \in 1..Len(rules) : rules[i].severity = None})
        /\ \A f \in Frameworks \cup DOMAIN stats.byFramework :
             /\ CountOf(stats.byFramework, f) =
                  Cardinality(RulesNaming(rules, f))
             /\ CountOf(stats.byFramework, f) =
                  Len(getRulesByFramework(rules, f))

\* the k-th smallest element of a set of indices
Nth(I, k) == CHOOSE i \in I : Cardinality({j \in I : j < i}) = k - 1

\* result is the subsequence of rs at the indices I, in the order of rs
IsSubsequenceAt(result, rs, I) ==
  /\ Len(result) = Cardinality(I)
  /\ \A k \in 1..Len(result) : result[k] = rs[Nth(I, k)]

\* C17: getRulesByCategory(c) returns exactly the rules of the rule set
\* whose category is c, and getRulesByFramework(f) exactly those whose
\* frameworks contains f, each as a subsequence in the order of the rule
\* set; a rule without frameworks is in no getRulesByFramework result; and
\* neither call changes the rule set.
C17_FiltersKeepOrderAndRuleSet ==
  [][/\ lastOp' = "getRulesByCategory" =>
          /\ rules' = rules
          /\ IsSubsequenceAt(lastQuery'[1].result, rules,
               {i \in 1..Len(rules) :
                  rules[i].category = lastQuery'[1].arg})
     /\ lastOp' = "getRulesByFramework" =>
          /\ rules' = rules
          /\ IsSubsequenceAt(lastQuery'[1].result, rules,
               RulesNaming(rules, lastQuery'[1].arg))
          /\ \A k \in 1..Len(lastQuery'[1].result) :
               lastQuery'[1].result[k].frameworks # None]_vars

\* getRulesByFramework("react") returned the three catalog rules for react
\* and, after them, the caller's rule that the constructor had put behind a
\* rule with other frameworks
C17_Witness ==
  /\ lastOp = "getRulesByFramework"
  /\ lastQuery[1].arg = "react"
  /\ Len(rules) = Len(coreRules) + 2
  /\ rules[Len(rules) - 1] = customRule2
  /\ Len(lastQuery[1].result) = 4
  /\ lastQuery[1].result[3].id = "react-hooks-rules"
  /\ lastQuery[1].result[4] = rules[Len(rules)]

\* C18: findMatch is read-only and deterministic.  A findMatch call leaves
\* the rule sequence as it was; the match it returns holds the error it was
\* given and a rule of that sequence; and when the call before it was a
\* findMatch with the same error and context, it returns the same rule with
\* the same confidence.
C18_FindMatchReadOnly ==
  [][lastOp' = "findMatch" =>
       /\ rules' = rules
       /\ lastResult' # None =>
            /\ lastResult'[1].error = lastError'[1]
            /\ lastResult'[1].rule = rules[lastResult'[1].idx]
       /\ (lastOp = "findMatch" /\ lastError' = lastError
                                /\ lastContext' = lastContext) =>
            /\ (lastResult' = None) = (lastResult = None)
            /\ lastResult' # None =>
                 /\ lastResult'[1].rule = lastResult[1].rule
                 /\ lastResult'[1].confidence = lastResult[1].confidence]_vars

\* findMatch returned a caller-supplied rule that is not the first rule of
\* the rule set
C18_Witness ==
  /\ lastOp = "findMatch"
  /\ lastResult # None
  /\ lastResult[1].idx > Len(coreRules)
  /\ lastResult[1].error = lastError[1]
  /\ rules[lastResult[1].idx] = lastResult[1].rule

(***************************************************************************)
(* Faults, under SpecFault.                                                *)
(***************************************************************************)
HasMessage(error) == "message" \in DOMAIN error

\* the rule set with every rule whose predicate throws for the error made a
\* rule that does not match
Isolated(rs, error) ==
  [i \in 1..Len(rs) |->
     IF throws(rs[i], error) THEN [rs[i] EXCEPT !.match = <<>>] ELSE rs[i]]

\* the same outcome: both null, or the same rule with the same confidence
SameAnswer(r1, r2) ==
  /\ r1 # Thrown
  /\ r2 # Thrown
  /\ (r1 = None) = (r2 = None)
  /\ r1 # None =>
       /\ r1[1].idx = r2[1].idx
       /\ r1[1].rule = r2[1].rule
       /\ r1[1].confidence = r2[1].confidence

\* C13: a predicate that throws during findMatch is isolated: findMatch does
\* not end with the exception, and it returns what it returns when every
\* rule whose predicate throws counts as a rule that did not match.
C13_FaultyPredicateIsolated ==
  (Returned /\ HasMessage(lastError[1])) =>
    /\ lastResult # Thrown
    /\ lastResult =
         findMatch(Isolated(rules, lastError[1]), lastError[1], lastContext)

\* C14: findMatch on an error-like value without a message raises no fault
\* and returns what it returns for the same value with the message "".
C14_MissingMessageAsEmpty ==
  (Returned /\ ~HasMessage(lastError[1])) =>
    /\ lastResult # Thrown
    /\ SameAnswer(lastResult,
                  findMatch(rules, Err(lastError[1].name, ""), lastContext))

(***************************************************************************)
(* The shared engine, prettyError and the global handlers, under           *)
(* SpecProcess.                                                            *)
(***************************************************************************)
\* C19: the engines are isolated.  addRules on an engine of the caller's own
\* changes neither the rule set of the shared ruleEngine nor the exported
\* coreRules array; addRules on the shared ruleEngine changes neither the
\* caller's engine nor coreRules; and every later prettyError call and
\* unhandledRejection listener has its findMatch answer for coreRules
\* followed by all the rules appended to the shared ruleEngine so far.
C19_InstancesIsolated ==
  [][/\ catalog' = catalog
     /\ lastOp' = "addRules" => sharedRules' = sharedRules
     /\ lastOp' = "ruleEngine.addRules" => rules' = rules
     /\ lastOp' = "prettyError" => Len(prettyCalls') = 1
     /\ lastOp' = "unhandledRejection" => Len(prettyCalls') = Len(listeners)
     /\ lastOp' \in {"prettyError", "unhandledRejection"} =>
          \A k \in 1..Len(prettyCalls') :
            prettyCalls'[k].engine.result =
              findMatch(coreRules \o sharedAdded',
                        prettyCalls'[k].engine.error,
                        prettyCalls'[k].engine.context)]_vars

\* an unhandledRejection listener got the rule that was appended to the
\* shared ruleEngine, while the caller's own engine holds another rule
C19_Witness ==
  /\ lastOp = "unhandledRejection"
  /\ sharedAdded = <<customRule2>>
  /\ rules = coreRules \o <<customRule1>>
  /\ catalog = coreRules
  /\ prettyCalls[1].engine.result # None
  /\ prettyCalls[1].engine.result[1].rule = customRule2
  /\ prettyCalls[1].engine.result[1].idx = Len(coreRules) + 1

\* C20: prettyError calls the formatter once, with the match findMatch
\* returned and with the error and the context findMatch was called with.
\* For null the output is the unknown-error rendering, which shows the
\* error's message; for a match it is the rendering of the match's rule.
C20_FormatterGetsEngineResult ==
  lastOp = "prettyError" =>
    /\ Len(prettyCalls) = 1
    /\ prettyCalls[1].engine.result # Thrown
    /\ prettyCalls[1].formatter # None
    /\ LET engine == prettyCalls[1].engine
           formatter == prettyCalls[1].formatter[1]
       IN  /\ formatter.ruleMatch = engine.result
           /\ formatter.error = engine.error
           /\ formatter.context = engine.context
           /\ engine.result = None =>
                /\ formatter.output.rendering = "unknown"
                /\ formatter.output.header = "UNKNOWN ERROR"
                /\ formatter.output.message = Some(engine.error.message)
           /\ engine.result # None =>
                /\ formatter.output.rendering = "known"
                /\ formatter.output.body = Some(engine.result[1].rule)
                /\ formatter.output.header =
                     toUpperCase(engine.result[1].rule.title)
                /\ formatter.output.icon =
                     getSeverityIcon(engine.result[1].rule.severity)

\* prettyError of the unrecognized message gave the unknown-error rendering
C20_Witness ==
  /\ lastOp = "prettyError"
  /\ prettyCalls[1].engine.error =
       Err("Error", "xyz totally unrecognized condition qqq")
  /\ prettyCalls[1].engine.result = None
  /\ prettyCalls[1].formatter[1].output.rendering = "unknown"
  /\ prettyCalls[1].formatter[1].output.message =
       Some("xyz totally unrecognized condition qqq")

(***************************************************************************)
(* The global handlers, under SpecHandlers.                                *)
(***************************************************************************)
\* C21: after setupGlobalErrorHandlers in a Node process, an uncaught
\* exception is matched and reported before the process ends: the listener
\* calls findMatch on the shared engine and formatError, writes the
\* formatter's output with console.error, and only then calls
\* process.exit(1); the process ends with exit code 1, whether the answer of
\* findMatch was a match or null.
C21_ReportThenExit ==
  lastOp = "uncaughtException" /\ uncaughtListeners # <<>> =>
    /\ exitCode = Some(1)
    /\ Len(prettyCalls) = 1
    /\ prettyCalls[1].engine.result # Thrown
    /\ prettyCalls[1].formatter # None
    /\ effects = <<[op |-> "console.error",
                    text |-> prettyCalls[1].formatter[1].output],
                   processExit(1)>>

\* no listener of uncaughtException or unhandledRejection on process, and
\* window.onerror and window.onunhandledrejection null
NoHandlers ==
  Handlers = [uncaughtException |-> <<>>, unhandledRejection |-> <<>>,
              onerror |-> None, onunhandledrejection |-> None]

\* C25: a removeGlobalErrorHandlers call leaves no handler of an earlier
\* setupGlobalErrorHandlers call in place, however many calls there were:
\* process has no uncaughtException and no unhandledRejection listener, and
\* window.onerror and window.onunhandledrejection are null.  From then on
\* and until setupGlobalErrorHandlers is called again, no step installs a
\* handler and an error that is raised reaches neither the engine nor
\* console.error through this library.
C25_RemoveLeavesNoHandler ==
  [][/\ lastOp' = "removeGlobalErrorHandlers" => NoHandlers'
     /\ NoHandlers /\ lastOp' # "setupGlobalErrorHandlers" =>
          /\ NoHandlers'
          /\ prettyCalls' = <<>>
          /\ effects' = <<>>]_vars

\* a removeGlobalErrorHandlers call has removed the two listeners of each
\* process event and the two window handlers that two setup calls installed
C25_Witness ==
  /\ lastOp = "removeGlobalErrorHandlers"
  /\ lastQuery # None
  /\ Len(lastQuery[1].result.uncaughtException) = 2
  /\ Len(lastQuery[1].result.unhandledRejection) = 2
  /\ lastQuery[1].result.onerror # None
  /\ lastQuery[1].result.onunhandledrejection # None
  /\ NoHandlers

(***************************************************************************)
(* The legacy lookup, prettyTry and prettyTryAsync, under SpecLegacy.      *)
(***************************************************************************)
\* the explanation the lookup is to return for a message: the mapping of the
\* key equal to it, else the mapping of the first key in declaration order
\* that it contains, else the fallback
KeysEqualTo(message) ==
  {i \in 1..Len(errorMappings) : errorMappings[i].key = message}

KeysWithin(message) ==
  {i \in 1..Len(errorMappings) : includes(message, errorMappings[i].key)}

First(S) == CHOOSE i \in S : \A j \in S : i <= j

ExpectedExplanation(message) ==
  IF KeysEqualTo(message) # {}
  THEN explain(message, errorMappings[First(KeysEqualTo(message))].mapping)
  ELSE IF KeysWithin(message) # {}
  THEN explain(message, errorMappings[First(KeysWithin(message))].mapping)
  ELSE fallbackExplanation(message)

\* prettyTry or prettyTryAsync has answered for an Error that fn threw
AnsweredForError ==
  /\ lastOp \in {"prettyTry", "prettyTryAsync settled"}
  /\ lastQuery # None
  /\ "thrown" \in DOMAIN lastQuery[1].arg
  /\ lastQuery[1].arg.thrown.isError

\* C22: for an Error that fn threw, the explanation prettyTry and
\* prettyTryAsync return is the mapping whose key equals the message if
\* there is one, otherwise the mapping of the first key, in declaration
\* order, that is a substring of the message, otherwise the generic
\* fallback; its message is the Error's message, and the state of the rule
\* engine has no say in it.
C22_LegacyLookup ==
  AnsweredForError =>
    /\ lastQuery[1].result.value.error.message =
         lastQuery[1].arg.thrown.error.message
    /\ lastQuery[1].result.value.error =
         ExpectedExplanation(lastQuery[1].arg.thrown.error.message)

C23_WrapperKeepsOutcome ==
  lastQuery # None /\ lastOp \in {"wrapped", "wrapped settled"} =>
    LET arg == lastQuery[1].arg
        result == lastQuery[1].result
    IN  /\ lastOp = "wrapped" /\ arg.kind \in {"returns", "throws"} =>
             result = arg
        /\ lastOp = "wrapped" /\ arg.kind \in {"resolves", "rejects"} =>
             result = [kind |-> "pending"]
        /\ lastOp = "wrapped settled" /\ arg.kind = "resolves" =>
             result = [kind |-> "fulfilled", value |-> arg.value]
        /\ lastOp = "wrapped settled" /\ arg.kind = "rejects" =>
             result = [kind |-> "rejected", thrown |-> arg.thrown]
        /\ Len(effects) =
             IF \/ arg.kind = "throws"
                \/ lastOp = "wrapped settled" /\ arg.kind = "rejects"
             THEN 1 ELSE 0
        /\ \A k \in 1..Len(effects) : effects[k].op = "console.error"
====
